---- MODULE Spec2Model ----
(***************************************************************************)
(* The LangGraph Athena agent: the entrypoint invoke(payload) runs the     *)
(* three-node graph submit_query -> poll_status -> (poll_status |          *)
(* fetch_results | END) against the module-level athena_client.            *)
(*                                                                         *)
(* athena_client is either the shipped AthenaQuery (a table of jobs whose  *)
(* completion is decided by elapsed wall-clock time) or the unittest.mock  *)
(* double the tests patch in its place, whose calls return whatever the    *)
(* test scripted, or raise.                                                *)
(***************************************************************************)
EXTENDS Integers, Sequences, FiniteSets, TLC

\* ---- bounds of the model ------------------------------------------------
MaxN == 3              \* largest max_retries a payload carries
MaxTime == 3           \* the wall clock is followed up to this value
MaxDuration == 2       \* largest ATHENA_MOCK_DURATION the environment sets

\* ---- program constants --------------------------------------------------
PollInterval == 2      \* POLL_INTERVAL default, time.sleep(2)
DefaultDuration == 10  \* ATHENA_MOCK_DURATION default

\* two executions of invoke, which may overlap
Execs == {1, 2}
RetryChoices == (0 - 1)..MaxN
Durations == 0..MaxDuration
SqlQueries == {"SELECT 1"}
JobIds == {"uuid-1", "uuid-2"}
Clients == {"AthenaQuery", "Mock"}

\* QueryStatus
RUNNING == "RUNNING"
SUCCEEDED == "SUCCEEDED"
FAILED == "FAILED"
QueryStatus == {RUNNING, SUCCEEDED, FAILED}

\* Python's None, as the absent value of an optional: {} is None, {v} is v.
None == {}
Some(v) == {v}
TheValue(opt) == CHOOSE v \in opt : TRUE

\* Python's {} ; dicts are records.
EmptyDict == [k \in {} |-> 0]

VARIABLES
    client,      \* what the module-level name athena_client is bound to
    env_duration,\* ATHENA_MOCK_DURATION
    queries,     \* AthenaQuery.queries: job id -> job record
    now,         \* time.time()
    pc,          \* pc[e]: the graph node execution e is about to run
    payload,     \* payload[e]: the payload invoke was called with
    state,       \* state[e]: the AgentState of execution e
    outcome,     \* outcome[e]: what invoke returned
    trace,       \* trace[e]: the athena_client calls and sleeps of e, in order
    direct,      \* the last call made on the AthenaQuery object outside the graph
    cancel,      \* cancel[e]: the caller of execution e has asked it to stop
    nodecall     \* the last call of a node function made outside the graph

vars == <<client, env_duration, queries, now, pc, payload, state, outcome, trace,
          direct, cancel, nodecall>>

Min(a, b) == IF a < b THEN a ELSE b

\* ---- AthenaQuery --------------------------------------------------------
\* Every call yields [raised, value, queries]: whether it raised, the value
\* returned (the message when it raised) and the table after the call.

MockResultRows == <<"Alice", "Bob", "Charlie">>

NotFound(id) == "Query " \o id \o " not found"
NotCompleted(id) == "Query " \o id \o " not yet completed"

\* Variant: identifiers that may repeat one already handed out.
FreshIds_Reused(q) == JobIds

\* uuid.uuid4(): an identifier no earlier call returned.
FreshIds(q) == JobIds \ DOMAIN q

ExecuteSQL(q, sql, sleep_seconds, t) ==
    { [raised |-> FALSE,
       value |-> id,
       queries |-> [x \in DOMAIN q \cup {id} |->
                      IF x = id
                      THEN [sql |-> sql,
                            status |-> RUNNING,
                            start_time |-> t,
                            sleep_duration |-> sleep_seconds,
                            results |-> None]
                      ELSE q[x]]] : id \in FreshIds(q) }

\* Variant: the status worked out from the clock at every call.
get_query_status_Recomputed(q, query_id, t) ==
    IF query_id \notin DOMAIN q
    THEN [raised |-> TRUE, value |-> NotFound(query_id), queries |-> q]
    ELSE LET elapsed == t - q[query_id].start_time
             q2 == IF elapsed >= q[query_id].sleep_duration
                   THEN [q EXCEPT ![query_id].status = SUCCEEDED,
                                  ![query_id].results = Some(MockResultRows)]
                   ELSE [q EXCEPT ![query_id].status = RUNNING,
                                  ![query_id].results = None]
         IN [raised |-> FALSE, value |-> q2[query_id].status, queries |-> q2]

\* Variant: completion recorded without the results.
get_query_status_NoResults(q, query_id, t) ==
    IF query_id \notin DOMAIN q
    THEN [raised |-> TRUE, value |-> NotFound(query_id), queries |-> q]
    ELSE LET elapsed == t - q[query_id].start_time
             q2 == IF elapsed >= q[query_id].sleep_duration
                   THEN [q EXCEPT ![query_id].status = SUCCEEDED]
                   ELSE q
         IN [raised |-> FALSE, value |-> q2[query_id].status, queries |-> q2]

\* Variant: a job found past its duration, not exactly at it, marked FAILED.
get_query_status_FailsLate(q, query_id, t) ==
    IF query_id \notin DOMAIN q
    THEN [raised |-> TRUE, value |-> NotFound(query_id), queries |-> q]
    ELSE LET elapsed == t - q[query_id].start_time
             q2 == IF elapsed = q[query_id].sleep_duration
                   THEN [q EXCEPT ![query_id].status = SUCCEEDED,
                                  ![query_id].results = Some(MockResultRows)]
                   ELSE IF elapsed > q[query_id].sleep_duration
                             /\ q[query_id].status = RUNNING
                   THEN [q EXCEPT ![query_id].status = FAILED]
                   ELSE q
         IN [raised |-> FALSE, value |-> q2[query_id].status, queries |-> q2]

\* Variant: a status call on a running job starts its duration afresh.
get_query_status_Restarts(q, query_id, t) ==
    IF query_id \notin DOMAIN q
    THEN [raised |-> TRUE, value |-> NotFound(query_id), queries |-> q]
    ELSE LET elapsed == t - q[query_id].start_time
             q2 == IF elapsed >= q[query_id].sleep_duration
                   THEN [q EXCEPT ![query_id].status = SUCCEEDED,
                                  ![query_id].results = Some(MockResultRows)]
                   ELSE [q EXCEPT ![query_id].start_time = t]
         IN [raised |-> FALSE, value |-> q2[query_id].status, queries |-> q2]

get_query_status(q, query_id, t) ==
    IF query_id \notin DOMAIN q
    THEN [raised |-> TRUE, value |-> NotFound(query_id), queries |-> q]
    ELSE LET elapsed == t - q[query_id].start_time
             q2 == IF elapsed >= q[query_id].sleep_duration
                   THEN [q EXCEPT ![query_id].status = SUCCEEDED,
                                  ![query_id].results = Some(MockResultRows)]
                   ELSE q
         IN [raised |-> FALSE, value |-> q2[query_id].status, queries |-> q2]

\* Variant: the results handed over whatever the status.
get_query_results_NoStatusCheck(q, query_id) ==
    IF query_id \notin DOMAIN q
    THEN [raised |-> TRUE, value |-> NotFound(query_id), queries |-> q]
    ELSE [raised |-> FALSE,
          value |-> IF q[query_id].results = None
                    THEN <<>>
                    ELSE TheValue(q[query_id].results),
          queries |-> q]

\* Variant: the results are taken out of the table by the call that returns them.
get_query_results_Consuming(q, query_id) ==
    IF query_id \notin DOMAIN q
    THEN [raised |-> TRUE, value |-> NotFound(query_id), queries |-> q]
    ELSE IF q[query_id].status # SUCCEEDED
    THEN [raised |-> TRUE, value |-> NotCompleted(query_id), queries |-> q]
    ELSE [raised |-> FALSE,
          value |-> IF q[query_id].results = None
                    THEN <<>>
                    ELSE TheValue(q[query_id].results),
          queries |-> [q EXCEPT ![query_id].results = None]]

\* Variant: get_query_results looking at the clock itself and completing a
\* job whose duration has elapsed.
get_query_results_ChecksClock(q, query_id) ==
    IF query_id \notin DOMAIN q
    THEN [raised |-> TRUE, value |-> NotFound(query_id), queries |-> q]
    ELSE IF /\ q[query_id].status # SUCCEEDED
            /\ now - q[query_id].start_time < q[query_id].sleep_duration
    THEN [raised |-> TRUE, value |-> NotCompleted(query_id), queries |-> q]
    ELSE [raised |-> FALSE,
          value |-> MockResultRows,
          queries |-> [q EXCEPT ![query_id].status = SUCCEEDED,
                                ![query_id].results = Some(MockResultRows)]]

get_query_results(q, query_id) ==
    IF query_id \notin DOMAIN q
    THEN [raised |-> TRUE, value |-> NotFound(query_id), queries |-> q]
    ELSE IF q[query_id].status # SUCCEEDED
    THEN [raised |-> TRUE, value |-> NotCompleted(query_id), queries |-> q]
    ELSE [raised |-> FALSE, value |-> TheValue(q[query_id].results), queries |-> q]

\* ---- the unittest.mock double of athena_client --------------------------
\* return_value / side_effect as the tests script them: any status, any row
\* list, or an exception.
MockRows == { <<>>, <<"Test">>, <<"Alice", "Bob">> }
MockError == "Test error"

MockExecuteSQL(q) ==
    { [raised |-> FALSE, value |-> "test-query-id", queries |-> q],
      [raised |-> TRUE, value |-> MockError, queries |-> q] }

MockGetQueryStatus(q) ==
    { [raised |-> FALSE, value |-> s, queries |-> q] : s \in QueryStatus }
    \cup { [raised |-> TRUE, value |-> MockError, queries |-> q] }

MockGetQueryResults(q) ==
    { [raised |-> FALSE, value |-> r, queries |-> q] : r \in MockRows }
    \cup { [raised |-> TRUE, value |-> MockError, queries |-> q] }

\* ---- athena_client.<call>: dispatch on what the name is bound to --------
CallExecuteSQL(sql, sleep_seconds) ==
    IF client = "AthenaQuery"
    THEN ExecuteSQL(queries, sql, sleep_seconds, now)
    ELSE MockExecuteSQL(queries)

CallGetQueryStatus(query_id) ==
    IF client = "AthenaQuery"
    THEN { get_query_status(queries, query_id, now) }
    ELSE MockGetQueryStatus(queries)

CallGetQueryResults(query_id) ==
    IF client = "AthenaQuery"
    THEN { get_query_results(queries, query_id) }
    ELSE MockGetQueryResults(queries)

\* ---- graph nodes (pure part: the state each returns) --------------------
initial_state(sql_query, max_retries) ==
    [sql_query |-> sql_query,
     query_execution_id |-> "",
     athena_status |-> "",
     retry_count |-> 0,
     max_retries |-> max_retries,
     analysis_result |-> EmptyDict,
     error |-> ""]

\* Variant: Node A leaving status and retry_count as the caller set them.
submit_athena_query_IdOnly(s, query_id) ==
    [s EXCEPT !.query_execution_id = query_id]

submit_athena_query(s, query_id) ==
    [s EXCEPT !.query_execution_id = query_id,
              !.athena_status = RUNNING,
              !.retry_count = 0]

\* Node B without the increment of retry_count.
poll_athena_status_NoIncrement(s, status) ==
    [s EXCEPT !.athena_status = status]

poll_athena_status(s, status) ==
    [s EXCEPT !.athena_status = status,
              !.retry_count = s.retry_count + 1]

\* Variant: the row count of the mock's result set written in.
fetch_athena_results_FixedCount(s, results) ==
    [s EXCEPT !.analysis_result =
        [total_rows |-> Len(MockResultRows),
         summary |-> "Retrieved " \o ToString(Len(MockResultRows)) \o " rows",
         data |-> results]]

fetch_athena_results(s, results) ==
    [s EXCEPT !.analysis_result =
        [total_rows |-> Len(results),
         summary |-> "Retrieved " \o ToString(Len(results)) \o " rows",
         data |-> results]]

\* The router without its FAILED branch.
should_continue_polling_NoFailed(s) ==
    IF s.athena_status = SUCCEEDED THEN "fetch_results"
    ELSE IF s.retry_count >= s.max_retries THEN "end"
    ELSE "poll_status"

\* The router testing retry exhaustion before the status.
should_continue_polling_ExhaustionFirst(s) ==
    IF s.retry_count >= s.max_retries THEN "end"
    ELSE IF s.athena_status = SUCCEEDED THEN "fetch_results"
    ELSE IF s.athena_status = FAILED THEN "end"
    ELSE "poll_status"

\* The router sending every terminal status to fetch_results.
should_continue_polling_FetchOnFailed(s) ==
    IF s.athena_status \in {SUCCEEDED, FAILED} THEN "fetch_results"
    ELSE IF s.retry_count >= s.max_retries THEN "end"
    ELSE "poll_status"

should_continue_polling(s) ==
    IF s.athena_status = SUCCEEDED THEN "fetch_results"
    ELSE IF s.athena_status = FAILED THEN "end"
    ELSE IF s.retry_count >= s.max_retries THEN "end"
    ELSE "poll_status"

\* ---- invoke: what it returns --------------------------------------------
\* Variant: polls reported from the ceiling instead of the counter.
invoke_return_PollsFromMax(final_state, max_retries) ==
    IF final_state.athena_status = SUCCEEDED
    THEN [status |-> "success",
          query_id |-> final_state.query_execution_id,
          polls |-> max_retries,
          result |-> final_state.analysis_result]
    ELSE IF final_state.athena_status = FAILED
    THEN [status |-> "failed",
          query_id |-> final_state.query_execution_id,
          polls |-> max_retries,
          error |-> "Query execution failed"]
    ELSE [status |-> "timeout",
          query_id |-> final_state.query_execution_id,
          polls |-> max_retries,
          error |-> "Query timed out after " \o ToString(max_retries)
                    \o " polling attempts"]

invoke_return(final_state, max_retries) ==
    IF final_state.athena_status = SUCCEEDED
    THEN [status |-> "success",
          query_id |-> final_state.query_execution_id,
          polls |-> final_state.retry_count,
          result |-> final_state.analysis_result]
    ELSE IF final_state.athena_status = FAILED
    THEN [status |-> "failed",
          query_id |-> final_state.query_execution_id,
          polls |-> final_state.retry_count,
          error |-> "Query execution failed"]
    ELSE [status |-> "timeout",
          query_id |-> final_state.query_execution_id,
          polls |-> final_state.retry_count,
          error |-> "Query timed out after " \o ToString(max_retries)
                    \o " polling attempts"]

invoke_except(message) ==
    [status |-> "error", error |-> message]

Pending == [status |-> "pending"]

Event(op, ret) == [op |-> op, ret |-> ret]

\* ---- create_agent_graph: the compiled graph's edges ----------------------
END == "__end__"
\* The graph entered at Node B.
EntryPoint_PollStatus == "poll_status"

EntryPoint == "submit_query"

\* Variant: submit_query wired straight to END.
Edge_ToEnd(node) == END

\* add_edge: the node that follows a node unconditionally.
Edge(node) ==
    IF node = "submit_query" THEN "poll_status" ELSE END

\* add_conditional_edges: where the router's answer leads.
ConditionalEdge(route) ==
    IF route = "fetch_results" THEN "fetch_results"
    ELSE IF route = "poll_status" THEN "poll_status"
    ELSE END

\* ---- a caller of the AthenaQuery object itself ---------------------------
\* What a call made outside the graph (as the tests of AthenaQuery make them)
\* gave back: the status or the rows returned, or the message raised.
UnknownId == "no-such-id"
DirectIds == JobIds \cup {UnknownId}

\* sleep_seconds of the jobs a direct caller starts: done at once, or later.
DirectSleepSeconds == {0, 1}

NoDirect ==
    [op |-> "none", id |-> "", raised |-> FALSE, msg |-> "", status |-> "", rows |-> <<>>]

DirectExecuteResult(r) ==
    [op |-> "execute", id |-> r.value, raised |-> FALSE,
     msg |-> "", status |-> "", rows |-> <<>>]

DirectStatusResult(id, r) ==
    [op |-> "status", id |-> id, raised |-> r.raised,
     msg |-> IF r.raised THEN r.value ELSE "",
     status |-> IF r.raised THEN "" ELSE r.value,
     rows |-> <<>>]

DirectResultsResult(id, r) ==
    [op |-> "results", id |-> id, raised |-> r.raised,
     msg |-> IF r.raised THEN r.value ELSE "",
     status |-> "",
     rows |-> IF r.raised THEN <<>> ELSE r.value]

\* ---- a node function called on a state its caller built -----------------
\* The AgentState dicts a caller may hand to Node A: any status, any count.
CallerStates ==
    { [sql_query |-> sql,
       query_execution_id |-> "",
       athena_status |-> st,
       retry_count |-> rc,
       max_retries |-> MaxN,
       analysis_result |-> EmptyDict,
       error |-> ""] : sql \in SqlQueries, st \in QueryStatus \cup {""}, rc \in 0..MaxN }

NoNodeCall == [name |-> "none", raised |-> FALSE, input |-> EmptyDict, output |-> EmptyDict]

\* ---- the state machine --------------------------------------------------
Init ==
    /\ client \in Clients
    /\ env_duration \in Durations \cup {DefaultDuration}
    /\ client = "Mock" => env_duration = DefaultDuration
    /\ queries = EmptyDict
    /\ now = 0
    /\ pc = [e \in Execs |-> "idle"]
    /\ payload = [e \in Execs |-> EmptyDict]
    /\ state = [e \in Execs |-> EmptyDict]
    /\ outcome = [e \in Execs |-> Pending]
    /\ trace = [e \in Execs |-> <<>>]
    /\ direct = NoDirect
    /\ cancel = [e \in Execs |-> FALSE]
    /\ nodecall = NoNodeCall

\* invoke(payload) up to graph.invoke(initial_state).
Invoke(e) ==
    /\ pc[e] = "idle"
    /\ \E sql \in SqlQueries, n \in RetryChoices :
        /\ payload' = [payload EXCEPT ![e] = [sql_query |-> sql, max_retries |-> n]]
        /\ state' = [state EXCEPT ![e] = initial_state(sql, n)]
    /\ pc' = [pc EXCEPT ![e] = EntryPoint]
    /\ UNCHANGED <<direct, cancel, nodecall, client, env_duration, queries, now, outcome, trace>>

\* Variant: a raising call leaves the execution at its node, which runs again.
RaiseRetried(e, op, message) ==
    /\ trace' = [trace EXCEPT ![e] = Append(@, Event(op, "raise"))]
    /\ UNCHANGED <<pc, outcome, state>>

\* Variant: invoke without its except clause; the exception leaves invoke.
Raise_Escapes(e, op, message) ==
    /\ trace' = [trace EXCEPT ![e] = Append(@, Event(op, "raise"))]
    /\ pc' = [pc EXCEPT ![e] = "crashed"]
    /\ UNCHANGED <<outcome, state>>

\* A node's athena_client call raised: no node catches it, graph.invoke lets it
\* through and invoke's except clause returns.
Raise(e, op, message) ==
    /\ trace' = [trace EXCEPT ![e] = Append(@, Event(op, "raise"))]
    /\ outcome' = [outcome EXCEPT ![e] = invoke_except(message)]
    /\ pc' = [pc EXCEPT ![e] = "done"]
    /\ UNCHANGED state

\* Variant: a pending cancellation is noticed whenever the graph moves on.
Goto_Cancellable(e, s, next) ==
    /\ state' = [state EXCEPT ![e] = s]
    /\ IF cancel[e]
       THEN /\ outcome' = [outcome EXCEPT ![e] = [status |-> "cancelled"]]
            /\ pc' = [pc EXCEPT ![e] = "done"]
       ELSE IF next = END
       THEN /\ outcome' = [outcome EXCEPT ![e] =
                             invoke_return(s, payload[e].max_retries)]
            /\ pc' = [pc EXCEPT ![e] = "done"]
       ELSE /\ pc' = [pc EXCEPT ![e] = next]
            /\ UNCHANGED outcome

\* The graph moved execution e, whose state is now s, on to `next`: a node, or
\* END, where graph.invoke returns s and invoke maps it to its result.
Goto(e, s, next) ==
    /\ state' = [state EXCEPT ![e] = s]
    /\ IF next = END
       THEN /\ outcome' = [outcome EXCEPT ![e] =
                             invoke_return(s, payload[e].max_retries)]
            /\ pc' = [pc EXCEPT ![e] = "done"]
       ELSE /\ pc' = [pc EXCEPT ![e] = next]
            /\ UNCHANGED outcome

\* Node A, then the edge out of submit_query.
SubmitQuery(e) ==
    /\ pc[e] = "submit_query"
    /\ \E r \in CallExecuteSQL(state[e].sql_query, env_duration) :
        /\ queries' = r.queries
        /\ IF r.raised
           THEN Raise(e, "submit", r.value)
           ELSE /\ trace' = [trace EXCEPT ![e] = Append(@, Event("submit", r.value))]
                /\ Goto(e, submit_athena_query(state[e], r.value), Edge("submit_query"))
    /\ UNCHANGED <<direct, cancel, nodecall, client, env_duration, now, payload>>

\* Variant: the router answers "poll_status" without its time.sleep.
PollStatus_NoWait(e) ==
    /\ pc[e] = "poll_status"
    /\ \E r \in CallGetQueryStatus(state[e].query_execution_id) :
        /\ queries' = r.queries
        /\ IF r.raised
           THEN Raise(e, "status", r.value)
           ELSE LET s2 == poll_athena_status(state[e], r.value)
                    route == should_continue_polling(s2)
                IN /\ trace' = [trace EXCEPT ![e] = Append(@, Event("status", r.value))]
                   /\ Goto(e, s2, ConditionalEdge(route))
    /\ UNCHANGED <<direct, cancel, nodecall, client, env_duration, now, payload>>

\* Node B, then the conditional edge: should_continue_polling up to its
\* time.sleep (pc "sleep"), or on to fetch_results or END.
PollStatus(e) ==
    /\ pc[e] = "poll_status"
    /\ \E r \in CallGetQueryStatus(state[e].query_execution_id) :
        /\ queries' = r.queries
        /\ IF r.raised
           THEN Raise(e, "status", r.value)
           ELSE LET s2 == poll_athena_status(state[e], r.value)
                    route == should_continue_polling(s2)
                IN /\ trace' = [trace EXCEPT ![e] = Append(@, Event("status", r.value))]
                   /\ Goto(e, s2, IF route = "poll_status"
                                  THEN "sleep"
                                  ELSE ConditionalEdge(route))
    /\ UNCHANGED <<direct, cancel, nodecall, client, env_duration, now, payload>>

\* Variant: the router never comes back from its wait.
Sleep_NeverReturns(e) ==
    /\ pc[e] = "sleep"
    /\ now' = Min(now + PollInterval, MaxTime)
    /\ UNCHANGED <<direct, cancel, nodecall, client, env_duration, queries, pc, payload, state, outcome, trace>>

\* time.sleep(poll_interval) returns, the router answers "poll_status" and the
\* conditional edge leads back to Node B. The clock is followed up to MaxTime
\* and reads MaxTime from then on, so a job submitted late is seen RUNNING as
\* a job of a longer duration would be.
Sleep(e) ==
    /\ pc[e] = "sleep"
    /\ now' = Min(now + PollInterval, MaxTime)
    /\ trace' = [trace EXCEPT ![e] = Append(@, Event("sleep", ""))]
    /\ pc' = [pc EXCEPT ![e] = ConditionalEdge("poll_status")]
    /\ UNCHANGED <<direct, cancel, nodecall, client, env_duration, queries, payload, state, outcome>>

\* Node C, then the edge out of fetch_results.
FetchResults(e) ==
    /\ pc[e] = "fetch_results"
    /\ \E r \in CallGetQueryResults(state[e].query_execution_id) :
        /\ queries' = r.queries
        /\ IF r.raised
           THEN Raise(e, "fetch", r.value)
           ELSE /\ trace' = [trace EXCEPT ![e] = Append(@, Event("fetch", "rows"))]
                /\ Goto(e, fetch_athena_results(state[e], r.value), Edge("fetch_results"))
    /\ UNCHANGED <<direct, cancel, nodecall, client, env_duration, now, payload>>

\* Wall-clock time passes between any two steps.
Tick ==
    /\ now < MaxTime
    /\ now' = now + 1
    /\ UNCHANGED <<direct, cancel, nodecall, client, env_duration, queries, pc, payload, state, outcome, trace>>

\* client.ExecuteSQL(sql, sleep_seconds), called on the AthenaQuery object
\* directly.
DirectExecuteSQL ==
    /\ client = "AthenaQuery"
    /\ \E sql \in SqlQueries, secs \in DirectSleepSeconds :
        \E r \in ExecuteSQL(queries, sql, secs, now) :
            /\ queries' = r.queries
            /\ direct' = DirectExecuteResult(r)
    /\ UNCHANGED <<cancel, nodecall, client, env_duration, now, pc, payload, state, outcome, trace>>

\* client.get_query_status(id), called on the AthenaQuery object directly.
DirectStatus(id) ==
    /\ client = "AthenaQuery"
    /\ LET r == get_query_status(queries, id, now)
       IN /\ queries' = r.queries
          /\ direct' = DirectStatusResult(id, r)
    /\ UNCHANGED <<cancel, nodecall, client, env_duration, now, pc, payload, state, outcome, trace>>

\* client.get_query_results(id), called on the AthenaQuery object directly.
DirectResults(id) ==
    /\ client = "AthenaQuery"
    /\ LET r == get_query_results(queries, id)
       IN /\ queries' = r.queries
          /\ direct' = DirectResultsResult(id, r)
    /\ UNCHANGED <<cancel, nodecall, client, env_duration, now, pc, payload, state, outcome, trace>>

\* submit_athena_query(state), called as a function on a caller's state.
CallSubmitNode ==
    /\ \E s \in CallerStates :
        \E r \in CallExecuteSQL(s.sql_query, env_duration) :
            /\ queries' = r.queries
            /\ nodecall' = [name |-> "submit_athena_query",
                        raised |-> r.raised,
                        input |-> s,
                        output |-> IF r.raised
                                   THEN EmptyDict
                                   ELSE submit_athena_query(s, r.value)]
    /\ UNCHANGED <<direct, cancel, client, env_duration, now, pc, payload, state,
                   outcome, trace>>

\* The caller of a polling execution asks for it to be cancelled. Nothing in
\* invoke or the graph takes such a request: the flag is the caller's alone.
RequestCancel(e) ==
    /\ pc[e] \in {"poll_status", "sleep"}
    /\ ~cancel[e]
    /\ cancel' = [cancel EXCEPT ![e] = TRUE]
    /\ UNCHANGED <<direct, nodecall, client, env_duration, queries, now, pc, payload, state,
                   outcome, trace>>

Next ==
    \/ \E e \in Execs : Invoke(e)
    \/ \E e \in Execs : SubmitQuery(e)
    \/ \E e \in Execs : PollStatus(e)
    \/ \E e \in Execs : Sleep(e)
    \/ \E e \in Execs : FetchResults(e)
    \/ Tick

Spec == Init /\ [][Next]_vars

\* graph.invoke runs the nodes of a started execution to completion, and
\* time.sleep returns.
ExecStep(e) == SubmitQuery(e) \/ PollStatus(e) \/ Sleep(e) \/ FetchResults(e)
FairSpec == Spec /\ \A e \in Execs : WF_vars(ExecStep(e))

\* One execution together with direct callers of the AthenaQuery object.
ClientExecs == {1}

ClientNext ==
    \/ \E e \in ClientExecs : Invoke(e)
    \/ \E e \in ClientExecs : SubmitQuery(e)
    \/ \E e \in ClientExecs : PollStatus(e)
    \/ \E e \in ClientExecs : Sleep(e)
    \/ \E e \in ClientExecs : FetchResults(e)
    \/ Tick
    \/ DirectExecuteSQL
    \/ \E id \in DirectIds : DirectStatus(id)
    \/ \E id \in DirectIds : DirectResults(id)

ClientSpec == Init /\ [][ClientNext]_vars

\* The executions together with callers that ask for cancellation.
CancelNext ==
    \/ Next
    \/ \E e \in Execs : RequestCancel(e)

CancelSpec == Init /\ [][CancelNext]_vars

\* One execution together with callers of Node A as a function.
NodeNext ==
    \/ \E e \in ClientExecs : Invoke(e)
    \/ \E e \in ClientExecs : SubmitQuery(e)
    \/ \E e \in ClientExecs : PollStatus(e)
    \/ \E e \in ClientExecs : Sleep(e)
    \/ \E e \in ClientExecs : FetchResults(e)
    \/ Tick
    \/ CallSubmitNode

NodeSpec == Init /\ [][NodeNext]_vars

\* ---- reading an execution's trace ---------------------------------------
IsStatus(ev) == ev.op = "status"
IsFetch(ev) == ev.op = "fetch"
IsSubmit(ev) == ev.op = "submit"
IsSleep(ev) == ev.op = "sleep"
IsCall(ev) == ev.op # "sleep"

StatusChecks(e) == SelectSeq(trace[e], IsStatus)
NumStatus(e) == Len(StatusChecks(e))
NumFetch(e) == Len(SelectSeq(trace[e], IsFetch))
NumSubmit(e) == Len(SelectSeq(trace[e], IsSubmit))
NumSleep(e) == Len(SelectSeq(trace[e], IsSleep))
Calls(e) == SelectSeq(trace[e], IsCall)

Done(e) == pc[e] = "done"
Submitted(e) == trace[e] # <<>> /\ trace[e][1].op = "submit" /\ trace[e][1].ret # "raise"
SomeRaise(e) == \E i \in DOMAIN trace[e] : trace[e][i].ret = "raise"

\* The status checks of e returned RUNNING k-1 times and then `last`.
RunningThen(e, k, last) ==
    /\ NumStatus(e) >= k
    /\ \A i \in 1..(k - 1) : StatusChecks(e)[i].ret = RUNNING
    /\ StatusChecks(e)[k].ret = last

AlwaysRunning(e) == \A i \in 1..NumStatus(e) : StatusChecks(e)[i].ret = RUNNING

\* ---- C1 ------------------------------------------------------------------
\* C1: for every max_retries = N >= 0, N = 0 included, an execution whose
\* status calls all returned RUNNING made exactly N status checks and ended
\* in the timeout outcome with polls = N.
C1_TimeoutAfterExactlyN ==
    \A e \in Execs :
        (Done(e) /\ Submitted(e) /\ AlwaysRunning(e) /\ payload[e].max_retries >= 0)
        => /\ NumStatus(e) = payload[e].max_retries
           /\ outcome[e].status = "timeout"
           /\ outcome[e].polls = payload[e].max_retries

\* ---- C2 ------------------------------------------------------------------
\* C2: when the status checks return RUNNING k-1 times and FAILED at check
\* k <= max_retries, check k is the last call of the execution, no
\* fetch_results call was made, and the outcome is failed with polls = k.
C2_FailedStopsAtK ==
    \A e \in Execs : \A k \in 1..MaxN :
        (Submitted(e) /\ k <= payload[e].max_retries /\ RunningThen(e, k, FAILED))
        => /\ NumStatus(e) = k
           /\ trace[e][Len(trace[e])] = Event("status", FAILED)
           /\ NumFetch(e) = 0
           /\ Done(e)
           /\ outcome[e].status = "failed"
           /\ outcome[e].polls = k

C2_Witness ==
    \E e \in Execs :
        /\ Submitted(e) /\ RunningThen(e, 2, FAILED)
        /\ payload[e].max_retries = 3
        /\ outcome[e].status = "failed"

\* ---- C3 ------------------------------------------------------------------
\* C3: an execution whose first status check returned SUCCEEDED ends having
\* made exactly 1 status check and exactly 1 fetch_results call, and, the
\* fetch having returned its rows, with the success outcome and polls = 1.
C3_SucceededFirstCheck ==
    \A e \in Execs :
        (Done(e) /\ Submitted(e) /\ RunningThen(e, 1, SUCCEEDED))
        => /\ NumStatus(e) = 1
           /\ NumFetch(e) = 1
           /\ ~SomeRaise(e) => /\ outcome[e].status = "success"
                                /\ outcome[e].polls = 1

C3_Witness ==
    \E e \in Execs :
        /\ Done(e) /\ Submitted(e) /\ RunningThen(e, 1, SUCCEEDED)
        /\ outcome[e].status = "success"
        /\ outcome[e].polls = 1

\* ---- C4 ------------------------------------------------------------------
\* C4: when the status checks return RUNNING k-1 times and SUCCEEDED at check
\* k <= max_retries, k = max_retries included, the outcome is never timeout,
\* and it is success with polls = k and the materialized result once the fetch
\* has returned its rows.
C4_SuccessBeatsExhaustion ==
    \A e \in Execs : \A k \in 1..MaxN :
        (Done(e) /\ Submitted(e) /\ k <= payload[e].max_retries
            /\ RunningThen(e, k, SUCCEEDED))
        => /\ outcome[e].status # "timeout"
           /\ ~SomeRaise(e) => /\ outcome[e].status = "success"
                                /\ outcome[e].polls = k
                                /\ outcome[e].result # EmptyDict

C4_Witness ==
    \E e \in Execs :
        /\ Done(e) /\ Submitted(e)
        /\ payload[e].max_retries = 3
        /\ RunningThen(e, 3, SUCCEEDED)
        /\ outcome[e].status = "success"

\* ---- C5 ------------------------------------------------------------------
\* C5: an execution calls fetch_results at most once, and only right after a
\* status check of its own that returned SUCCEEDED; an execution that ended
\* failed, in timeout or on a submission error made no fetch_results call.
C5_FetchOnlyAfterSucceeded ==
    \A e \in Execs :
        /\ NumFetch(e) <= 1
        /\ \A i \in DOMAIN trace[e] :
              trace[e][i].op = "fetch"
              => /\ i > 1
                 /\ trace[e][i - 1] = Event("status", SUCCEEDED)
        /\ outcome[e].status \in {"failed", "timeout"} => NumFetch(e) = 0
        /\ (trace[e] # <<>> /\ trace[e][1] = Event("submit", "raise"))
              => NumFetch(e) = 0

C5_Witness ==
    \E e \in Execs :
        /\ NumFetch(e) = 1
        /\ NumStatus(e) = 2
        /\ Done(e)

\* ---- C6 ------------------------------------------------------------------
\* C6: in every reachable state of a poll session with max_retries >= 0,
\* retry_count <= max_retries, and the session has ended exactly when a status
\* check returned SUCCEEDED or FAILED or retry_count = max_retries.
Polling(e) == pc[e] \in {"poll_status", "sleep"}
Terminal(e) == state[e].athena_status \in {SUCCEEDED, FAILED}

C6_AttemptsWithinCeiling ==
    \A e \in Execs :
        (Submitted(e) /\ ~SomeRaise(e) /\ payload[e].max_retries >= 0)
        => /\ state[e].retry_count <= state[e].max_retries
           /\ ~Polling(e) <=> (Terminal(e) \/ state[e].retry_count = state[e].max_retries)

\* ---- C7 ------------------------------------------------------------------
\* C7: every started execution eventually returns exactly one of the outcomes
\* success, failed, timeout and error, whatever the status calls return, and
\* the outcome it returned never changes afterwards.
FinalOutcomes == {"success", "failed", "timeout", "error"}
Returned(e) == Done(e) /\ outcome[e].status \in FinalOutcomes

C7_Terminates ==
    /\ \A e \in Execs : (pc[e] # "idle") ~> Returned(e)
    /\ [][\A e \in Execs : Returned(e) => (Returned(e)' /\ outcome'[e] = outcome[e])]_vars
    /\ [](\A e \in Execs : Done(e) <=> outcome[e] # Pending)

C7_Witness ==
    \E e \in Execs :
        /\ Returned(e)
        /\ outcome[e].status = "timeout"
        /\ NumStatus(e) = 3
        /\ AlwaysRunning(e)

\* ---- C8 ------------------------------------------------------------------
\* C8: when ExecuteSQL raises, that call is the only athena_client call of the
\* execution (no second submit, no status check, no fetch), the execution has
\* ended, and its outcome is the error outcome with the exception's message
\* and no query id.
C8_SubmitErrorEndsExecution ==
    \A e \in Execs :
        (trace[e] # <<>> /\ trace[e][1] = Event("submit", "raise"))
        => /\ trace[e] = <<Event("submit", "raise")>>
           /\ Done(e)
           /\ outcome[e] = [status |-> "error", error |-> MockError]
           /\ state[e].query_execution_id = ""

C8_Witness ==
    \E e \in Execs :
        /\ trace[e] = <<Event("submit", "raise")>>
        /\ outcome[e].status = "error"

\* ---- C9 ------------------------------------------------------------------
\* C9: a status or fetch_results call that raised is the last athena_client
\* call of its execution, which has ended in the error outcome carrying the
\* exception's message; and a status check is followed by another status check
\* only if it returned RUNNING.
ErrorMessages(e) ==
    {MockError, NotFound(state[e].query_execution_id),
     NotCompleted(state[e].query_execution_id)}

C9_NoRetryOnException ==
    \A e \in Execs :
        /\ \A i \in DOMAIN trace[e] :
              (trace[e][i].op \in {"status", "fetch"} /\ trace[e][i].ret = "raise")
              => /\ i = Len(trace[e])
                 /\ Done(e)
                 /\ outcome[e].status = "error"
                 /\ outcome[e].error \in ErrorMessages(e)
        /\ \A i \in 1..(NumStatus(e) - 1) : StatusChecks(e)[i].ret = RUNNING

C9_Witness ==
    /\ \E e \in Execs :
          /\ NumStatus(e) = 2
          /\ trace[e][Len(trace[e])] = Event("status", "raise")
          /\ outcome[e].status = "error"
    /\ \E e \in Execs :
          /\ trace[e] # <<>>
          /\ trace[e][Len(trace[e])] = Event("fetch", "raise")
          /\ outcome[e].status = "error"

\* ---- C10 -----------------------------------------------------------------
\* C10: the athena_client calls of an execution are, in order, one ExecuteSQL
\* call, then its status checks, then at most one fetch_results call as the
\* last call; no status check or fetch follows an ExecuteSQL call that raised.
C10_CallOrder ==
    \A e \in Execs :
        LET c == Calls(e)
        IN c # <<>>
           => /\ c[1].op = "submit"
              /\ \A i \in 2..Len(c) :
                    /\ c[i].op \in {"status", "fetch"}
                    /\ c[1].ret # "raise"
                    /\ c[i].op = "fetch" => i = Len(c)
                    /\ c[i].op = "fetch" => i > 2

C10_Witness ==
    \E e \in Execs :
        /\ Len(Calls(e)) = 4
        /\ Calls(e)[1].op = "submit"
        /\ Calls(e)[2] = Event("status", RUNNING)
        /\ Calls(e)[3] = Event("status", SUCCEEDED)
        /\ Calls(e)[4] = Event("fetch", "rows")

\* ---- C11 -----------------------------------------------------------------
\* C11: two executions sharing the AthenaQuery object hold two distinct job
\* ids, and a step of one execution changes neither the other execution's
\* state (retry_count, athena_status), nor its outcome, nor its job's entry
\* in the table, under every interleaving of their steps.
JobOf(e) == state[e].query_execution_id
Stepped(e) == pc'[e] # pc[e] \/ trace'[e] # trace[e]
Times == 0..MaxTime
TerminalStatus == {SUCCEEDED, FAILED}

C11_ExecutionsIndependent ==
    /\ [](client = "AthenaQuery"
            => \A e1, e2 \in Execs :
                 (e1 # e2 /\ Submitted(e1) /\ Submitted(e2)) => JobOf(e1) # JobOf(e2))
    /\ [][\A e \in Execs :
             ~Stepped(e)
             => /\ state'[e] = state[e]
                /\ outcome'[e] = outcome[e]
                /\ (client = "AthenaQuery" /\ Submitted(e))
                     => /\ JobOf(e) \in DOMAIN queries'
                        /\ queries'[JobOf(e)] = queries[JobOf(e)]]_vars

C11_Witness ==
    /\ client = "AthenaQuery"
    /\ Submitted(1) /\ Submitted(2)
    /\ JobOf(1) # JobOf(2)
    /\ NumStatus(1) = 2 /\ pc[1] = "sleep"
    /\ outcome[2].status = "success"
    /\ queries[JobOf(1)].status = RUNNING
    /\ queries[JobOf(2)].status = SUCCEEDED

\* ---- C12 -----------------------------------------------------------------
\* C12: a job's status only moves forward: once its stored status is SUCCEEDED
\* or FAILED, a status call at any clock reading returns that value and leaves
\* the table as it is, no step changes it, and every status call returns the
\* status stored when it returns, so RUNNING is never reported after it.
C12_StatusForwardOnly ==
    /\ [](client = "AthenaQuery"
            => \A id \in DOMAIN queries : \A t \in Times :
                 queries[id].status \in TerminalStatus
                 => LET r == get_query_status(queries, id, t)
                    IN /\ ~r.raised
                       /\ r.value = queries[id].status
                       /\ r.queries = queries)
    /\ [][\A id \in DOMAIN queries :
             queries[id].status \in TerminalStatus
             => /\ id \in DOMAIN queries'
                /\ queries'[id].status = queries[id].status]_vars
    /\ [][(direct' # direct /\ direct'.op = "status" /\ ~direct'.raised)
            => direct'.status = queries'[direct'.id].status]_vars
    /\ [][client = "AthenaQuery"
            => \A e \in Execs :
                 (NumStatus(e)' > NumStatus(e) /\ ~SomeRaise(e)')
                 => trace'[e][Len(trace'[e])].ret = queries'[JobOf(e)].status]_vars

C12_Witness ==
    /\ Submitted(1)
    /\ direct.op = "status"
    /\ direct.status = SUCCEEDED
    /\ direct.id = JobOf(1)
    /\ RunningThen(1, 2, SUCCEEDED)
    /\ now = MaxTime

\* ---- C13 -----------------------------------------------------------------
\* C13: in every reachable state of the table, a job has results if and only
\* if its status is SUCCEEDED.
C13_ResultsIffSucceeded ==
    \A id \in DOMAIN queries :
        (queries[id].results # None) <=> (queries[id].status = SUCCEEDED)

C13_Witness ==
    \E id1, id2 \in DOMAIN queries :
        /\ queries[id1].status = SUCCEEDED
        /\ queries[id1].results = Some(MockResultRows)
        /\ queries[id2].status = RUNNING
        /\ queries[id2].results = None

\* ---- C14 -----------------------------------------------------------------
\* C14: get_query_results raises "not found" for an id the table does not
\* hold and "not yet completed" for a job whose status is not SUCCEEDED; in
\* both cases it returns no rows and leaves the table unchanged.
C14_FetchErrors ==
    /\ [](client = "AthenaQuery"
            => \A id \in DirectIds :
                 LET r == get_query_results(queries, id)
                 IN /\ id \notin DOMAIN queries
                         => /\ r.raised
                            /\ r.value = NotFound(id)
                            /\ r.queries = queries
                    /\ (id \in DOMAIN queries /\ queries[id].status # SUCCEEDED)
                         => /\ r.raised
                            /\ r.value = NotCompleted(id)
                            /\ r.queries = queries)
    /\ [][(direct' # direct /\ direct'.op = "results")
            => /\ queries' = queries
               /\ direct'.id \notin DOMAIN queries
                    => direct' = [NoDirect EXCEPT !.op = "results", !.id = direct'.id,
                                                  !.raised = TRUE,
                                                  !.msg = NotFound(direct'.id)]
               /\ (direct'.id \in DOMAIN queries
                       /\ queries[direct'.id].status # SUCCEEDED)
                    => direct' = [NoDirect EXCEPT !.op = "results", !.id = direct'.id,
                                                  !.raised = TRUE,
                                                  !.msg = NotCompleted(direct'.id)]]_vars

C14_Witness ==
    /\ direct.op = "results"
    /\ direct.raised
    /\ direct.id \in DOMAIN queries
    /\ queries[direct.id].status = RUNNING
    /\ direct.msg = NotCompleted(direct.id)
    /\ direct.rows = <<>>
    /\ UnknownId \notin DOMAIN queries

\* ---- C15 -----------------------------------------------------------------
\* C15: for a SUCCEEDED job get_query_results returns the job's rows, the same
\* at every call, and changes nothing in the table; the rows of a SUCCEEDED
\* job are not changed by any later step, status calls included.
C15_FetchRepeatable ==
    /\ [](client = "AthenaQuery"
            => \A id \in DOMAIN queries :
                 queries[id].status = SUCCEEDED
                 => LET r == get_query_results(queries, id)
                    IN /\ ~r.raised
                       /\ r.value = MockResultRows
                       /\ r.queries = queries)
    /\ [][(direct' # direct /\ direct'.op = "results") => queries' = queries]_vars
    /\ [][\A e \in Execs : NumFetch(e)' > NumFetch(e) => queries' = queries]_vars
    /\ [][\A id \in DOMAIN queries :
             queries[id].status = SUCCEEDED
             => /\ id \in DOMAIN queries'
                /\ queries'[id].results = queries[id].results]_vars

C15_Witness ==
    /\ Submitted(1)
    /\ NumFetch(1) = 1
    /\ outcome[1].status = "success"
    /\ direct.op = "results"
    /\ ~direct.raised
    /\ direct.id = JobOf(1)
    /\ direct.rows = outcome[1].result.data
    /\ \E id \in DOMAIN queries : queries[id].status = RUNNING

\* ---- C16 -----------------------------------------------------------------
\* C16: in every success outcome the result is the materialized one and its
\* total_rows equals the length of its data, the empty row list included.
C16_RowCountIsLength ==
    \A e \in Execs :
        outcome[e].status = "success"
        => /\ DOMAIN outcome[e].result = {"total_rows", "summary", "data"}
           /\ outcome[e].result.total_rows = Len(outcome[e].result.data)

C16_Witness ==
    /\ outcome[1].status = "success"
    /\ outcome[1].result.data = <<>>
    /\ outcome[1].result.total_rows = 0
    /\ outcome[2].status = "success"
    /\ outcome[2].result.total_rows = 2

\* ---- C17 -----------------------------------------------------------------
\* C17: when no call raised, invoke's outcome is success exactly when the last
\* status observed is SUCCEEDED (and then carries the materialized result),
\* failed exactly when it is FAILED, and timeout otherwise; in all three the
\* query id is the one ExecuteSQL returned and polls is the number of status
\* checks made.
LastStatus(e) == StatusChecks(e)[NumStatus(e)].ret

C17_OutcomeFromLastStatus ==
    \A e \in Execs :
        (Done(e) /\ ~SomeRaise(e))
        => /\ NumStatus(e) >= 1
           /\ outcome[e].status \in {"success", "failed", "timeout"}
           /\ outcome[e].status = "success" <=> LastStatus(e) = SUCCEEDED
           /\ outcome[e].status = "failed" <=> LastStatus(e) = FAILED
           /\ outcome[e].status = "timeout" <=> LastStatus(e) = RUNNING
           /\ outcome[e].status = "success"
                => outcome[e].result = state[e].analysis_result
           /\ outcome[e].query_id = trace[e][1].ret
           /\ outcome[e].polls = NumStatus(e)

C17_Witness ==
    /\ outcome[1].status = "timeout"
    /\ outcome[1].polls = 2
    /\ payload[1].max_retries = 2
    /\ outcome[2].status = "failed"
    /\ outcome[2].polls = 1
    /\ payload[2].max_retries = 3

\* ---- C18 -----------------------------------------------------------------
\* C18: whenever ExecuteSQL, a status check or get_query_results raised in an
\* execution, invoke has returned for it, and what it returned is exactly
\* status error with the exception's message; and invoke returns status error
\* in no other case.
C18_ExceptionsBecomeErrorOutcome ==
    \A e \in Execs :
        /\ SomeRaise(e)
             => /\ Done(e)
                /\ DOMAIN outcome[e] = {"status", "error"}
                /\ outcome[e].status = "error"
                /\ outcome[e].error \in ErrorMessages(e)
        /\ outcome[e].status = "error" => SomeRaise(e)

C18_Witness ==
    /\ trace[1] = <<Event("submit", "raise")>>
    /\ outcome[1] = [status |-> "error", error |-> MockError]
    /\ NumStatus(2) = 3
    /\ NumFetch(2) = 0
    /\ SomeRaise(2)
    /\ outcome[2] = [status |-> "error", error |-> MockError]

\* ---- C19 -----------------------------------------------------------------
\* C19 as stated: an execution for which cancellation was requested before a
\* poll attempt or during the wait ends in a cancelled outcome.
C19_CancelAborts ==
    \A e \in Execs :
        (cancel[e] /\ Done(e)) => outcome[e].status = "cancelled"

\* C19: a cancellation request changes nothing. The outcome is never
\* cancelled; an execution with a pending request that ended without an
\* exception went on to a terminal status or to the exhaustion of its
\* attempts, and returned what invoke maps its final state to; and nothing an
\* execution does depends on, or clears, the request.
C19_NoCancellation ==
    /\ [](\A e \in Execs :
            /\ outcome[e].status \in FinalOutcomes \cup {"pending"}
            /\ (cancel[e] /\ Done(e) /\ ~SomeRaise(e))
                 => /\ \/ LastStatus(e) \in TerminalStatus
                       \/ NumStatus(e) >= payload[e].max_retries
                    /\ outcome[e] = invoke_return(state[e], payload[e].max_retries))
    /\ [][\A e \in Execs : cancel[e] => cancel'[e]]_vars

C19_Witness ==
    \E e \in Execs :
        /\ cancel[e]
        /\ Done(e)
        /\ payload[e].max_retries = 3
        /\ NumStatus(e) = 3
        /\ NumSleep(e) = 2
        /\ outcome[e].status = "timeout"

ReturnedStatusChecks(e) ==
    Len(SelectSeq(StatusChecks(e), LAMBDA ev : ev.ret # "raise"))

LastEvent(e) == trace[e][Len(trace[e])]

\* C21: the router waits exactly when it decides to poll again (status RUNNING
\* and retry_count < max_retries) and never otherwise. Every wait comes right
\* after a status check that returned RUNNING and is followed by the next
\* status check; no two status checks follow one another without a wait; and
\* an execution that ended after k >= 1 status checks made exactly k - 1 waits.
C21_OneWaitBetweenChecks ==
    \A e \in Execs :
        /\ pc[e] = "sleep"
             <=> /\ Submitted(e)
                 /\ LastEvent(e) = Event("status", RUNNING)
                 /\ state[e].retry_count < state[e].max_retries
        /\ \A i \in DOMAIN trace[e] :
             /\ IsSleep(trace[e][i])
                  => /\ i > 2
                     /\ trace[e][i - 1] = Event("status", RUNNING)
                     /\ IF i < Len(trace[e])
                        THEN IsStatus(trace[e][i + 1])
                        ELSE pc[e] = "poll_status"
             /\ (IsStatus(trace[e][i]) /\ i < Len(trace[e]))
                  => ~IsStatus(trace[e][i + 1])
             /\ IsSubmit(trace[e][i]) => i = 1
             /\ IsFetch(trace[e][i]) => i = Len(trace[e])
        /\ NumStatus(e) = 0 => NumSleep(e) = 0
        /\ (Done(e) /\ NumStatus(e) >= 1) => NumSleep(e) = NumStatus(e) - 1

C21_Witness ==
    \E e \in Execs :
        /\ Done(e)
        /\ NumStatus(e) = 3
        /\ NumSleep(e) = 2
        /\ NumFetch(e) = 1
        /\ outcome[e].status = "success"

\* ---- C22 -----------------------------------------------------------------
\* C22: the state Node A returns has a non-empty query_execution_id, status
\* RUNNING and retry_count 0 whatever status and retry_count the state it was
\* given had, and is otherwise the state it was given; and a job that
\* ExecuteSQL adds to the table starts RUNNING with no results.
C22_SubmitResetsState ==
    /\ [](/\ (nodecall.name = "submit_athena_query" /\ ~nodecall.raised)
              => /\ nodecall.output.query_execution_id # ""
                 /\ nodecall.output.athena_status = RUNNING
                 /\ nodecall.output.retry_count = 0
                 /\ nodecall.output =
                      [nodecall.input EXCEPT
                          !.query_execution_id = nodecall.output.query_execution_id,
                          !.athena_status = RUNNING,
                          !.retry_count = 0]
           /\ \A e \in ClientExecs :
                (Submitted(e) /\ Len(trace[e]) = 1)
                => /\ state[e].query_execution_id # ""
                   /\ state[e].query_execution_id = trace[e][1].ret
                   /\ state[e].athena_status = RUNNING
                   /\ state[e].retry_count = 0)
    /\ [][\A id \in DOMAIN queries' \ DOMAIN queries :
            /\ queries'[id].status = RUNNING
            /\ queries'[id].results = None
            /\ queries'[id].start_time = now]_vars

C22_Witness ==
    /\ client = "AthenaQuery"
    /\ nodecall.name = "submit_athena_query"
    /\ nodecall.input.athena_status = FAILED
    /\ nodecall.input.retry_count = MaxN
    /\ nodecall.output.retry_count = 0
    /\ nodecall.output.query_execution_id \in DOMAIN queries
    /\ queries[nodecall.output.query_execution_id].status = RUNNING
    /\ queries[nodecall.output.query_execution_id].results = None

StatusCallReturnedSucceeded(id) ==
    \/ /\ direct' # direct
       /\ direct' = [NoDirect EXCEPT !.op = "status", !.id = id, !.status = SUCCEEDED]
    \/ \E e \in ClientExecs :
        /\ Submitted(e)
        /\ JobOf(e) = id
        /\ trace'[e] = Append(trace[e], Event("status", SUCCEEDED))

\* The job's duration has run out on the clock.
Elapsed(id) == now - queries[id].start_time >= queries[id].sleep_duration

\* C24: the stored status of a job changes only in a step that is a
\* get_query_status call for that job returning SUCCEEDED, and a
\* get_query_results call returns rows only for a job whose stored status is
\* already SUCCEEDED, so only after such a status call. A job stored as
\* RUNNING is refused as not yet completed whatever the clock says, its
\* duration having elapsed included.
C24_StatusChangesOnlyWhenPolled ==
    /\ [][client = "AthenaQuery"
            => \A id \in DOMAIN queries :
                 (id \notin DOMAIN queries' \/ queries'[id].status # queries[id].status)
                 => /\ id \in DOMAIN queries'
                    /\ queries[id].status = RUNNING
                    /\ Elapsed(id)
                    /\ StatusCallReturnedSucceeded(id)]_vars
    /\ [][client = "AthenaQuery"
            => /\ (direct' # direct /\ direct'.op = "results" /\ ~direct'.raised)
                    => /\ direct'.id \in DOMAIN queries
                       /\ queries[direct'.id].status = SUCCEEDED
               /\ \A e \in ClientExecs :
                    (NumFetch(e)' > NumFetch(e) /\ ~SomeRaise(e)')
                    => queries[JobOf(e)].status = SUCCEEDED]_vars
    /\ [](client = "AthenaQuery"
            => \A id \in DOMAIN queries :
                 queries[id].status = RUNNING
                 => get_query_results(queries, id) =
                      [raised |-> TRUE, value |-> NotCompleted(id), queries |-> queries])

C24_Witness ==
    \E id \in DOMAIN queries :
        /\ queries[id].sleep_duration = 1
        /\ now = MaxTime
        /\ Elapsed(id)
        /\ queries[id].status = RUNNING
        /\ direct = [NoDirect EXCEPT !.op = "results", !.id = id, !.raised = TRUE,
                                     !.msg = NotCompleted(id)]

\* ---- C25 -----------------------------------------------------------------
\* C25: with AthenaQuery as the client no job is ever FAILED: a stored status
\* is RUNNING or SUCCEEDED and the only change of it is from RUNNING to
\* SUCCEEDED; no status check of an execution returns FAILED, no execution
\* returns the failed outcome, and every execution that ended returned
\* success, timeout or error.
C25_BackendNeverFails ==
    /\ [](client = "AthenaQuery"
            => /\ \A id \in DOMAIN queries : queries[id].status \in {RUNNING, SUCCEEDED}
               /\ \A e \in Execs :
                    /\ \A i \in 1..NumStatus(e) : StatusChecks(e)[i].ret # FAILED
                    /\ outcome[e].status # "failed"
                    /\ Done(e) => outcome[e].status \in {"success", "timeout", "error"})
    /\ [][client = "AthenaQuery"
            => \A id \in DOMAIN queries :
                 queries'[id].status # queries[id].status
                 => /\ queries[id].status = RUNNING
                    /\ queries'[id].status = SUCCEEDED]_vars

C25_Witness ==
    /\ client = "AthenaQuery"
    /\ Done(1)
    /\ Done(2)
    /\ outcome[1].status = "timeout"
    /\ outcome[1].polls = 2
    /\ outcome[2].status = "success"
    /\ queries[JobOf(1)].status = RUNNING
    /\ queries[JobOf(2)].status = SUCCEEDED

\* ---- C26 -----------------------------------------------------------------
\* C26: no step removes a job from the table or changes its sql, start_time
\* or sleep_duration, so the known ids only grow. The step that ends an
\* execution in timeout leaves the table as it was, the job of a timed-out
\* execution is still in the table, and a status call for it at any clock
\* reading at which its duration has elapsed returns SUCCEEDED.
C26_JobsAreKept ==
    /\ [][client = "AthenaQuery"
            => \A id \in DOMAIN queries :
                 /\ id \in DOMAIN queries'
                 /\ queries'[id].sql = queries[id].sql
                 /\ queries'[id].start_time = queries[id].start_time
                 /\ queries'[id].sleep_duration = queries[id].sleep_duration]_vars
    /\ [][client = "AthenaQuery"
            => \A e \in ClientExecs :
                 (outcome'[e].status = "timeout" /\ outcome[e].status # "timeout")
                 => queries' = queries]_vars
    /\ [](client = "AthenaQuery"
            => \A e \in ClientExecs :
                 outcome[e].status = "timeout"
                 => /\ JobOf(e) \in DOMAIN queries
                    /\ \A t \in Times :
                         t - queries[JobOf(e)].start_time >= queries[JobOf(e)].sleep_duration
                         => get_query_status(queries, JobOf(e), t).value = SUCCEEDED)

C26_Witness ==
    /\ client = "AthenaQuery"
    /\ outcome[1].status = "timeout"
    /\ outcome[1].polls = 1
    /\ direct = [NoDirect EXCEPT !.op = "status", !.id = JobOf(1), !.status = SUCCEEDED]
    /\ queries[JobOf(1)].status = SUCCEEDED
    /\ queries[JobOf(1)].start_time = 0
    /\ queries[JobOf(1)].sleep_duration = 2

====
